---- MODULE Spec2Model ----
(***************************************************************************)
(* EyeOnProps (god-eye, v2.1.0): a watcher of object properties with two   *)
(* detection strategies, polling (clock) and setter interception           *)
(* (realTime), and two emission policies (changed / all).                  *)
(*                                                                         *)
(* The model holds one EyeOnProps instance, a small heap of watched        *)
(* objects with their properties, the runtime's interval timers, and the   *)
(* garbage collector with the FinalizationRegistry of the instance.        *)
(***************************************************************************)
EXTENDS Integers, Sequences, FiniteSets, TLC

\* ------------------------------------------------------------------ bounds
NumObjs == 2        \* objects the caller creates
MaxVal == 1         \* property values are 0..MaxVal
MaxEntries == 2     \* WatchedEntry objects ever allocated by addEntry
MaxBatch == 2       \* items of the array passed to watch(instance, [...])

Objs == 1..NumObjs
Props == {"a", "b"}
Keys == {"k"}
Vals == 0..MaxVal
Intervals == {10, 20}
SubIntervals == {10}    \* the interval clock() is called with under subscribers
Undefined == "undefined"

\* the arrays watch(instance, props) is called with: items [prop] or
\* [prop, key]
Items == [prop : Props, key : Keys \cup {Undefined}]
Batches == UNION {[1..n -> Items] : n \in 0..MaxBatch}

VARIABLES
    entries,     \* this.entries: sequence of references (heap ids) to WatchedEntry objects
    heap,        \* the WatchedEntry objects ever allocated: obj, prop, key, lastValue
    mode,        \* this.mode
    type,        \* this.type
    intervalId,  \* this.intervalId: 0 is null, otherwise the id of a timer
    timers,      \* the runtime's active interval timers: records id, ms
    attrs,       \* the objects: attrs[o] maps the property names of o to their slot
    live,        \* live[o]: o has not been collected (WeakRef.deref() returns it)
    finalized,   \* ids of the registrations whose finalization callback has run
    out,         \* the notifications emitted by the most recent operation, in order
    last,        \* the most recent operation, its arguments and whether it threw
    rtCalled,    \* history: realTime() has been called at least once
    unwatched,   \* history: the objects passed to unwatch() and not watched again since
    late,        \* history: ids of the registered entries of live objects that
                 \* were added after the most recent realTime() call
    listener     \* the subscriber added with on(ev, fn): the event it listens
                 \* to and what fn does, or NoListener

vars == <<entries, heap, mode, type, intervalId, timers, attrs, live,
          finalized, out, last, rtCalled, unwatched, late, listener>>

hist == <<rtCalled, unwatched, late>>

\* ------------------------------------------------------------ the objects
\* Every object is created with the one property a; no object has b.
PropsOf(o) == {"a"}

\* A slot is a data property (acc = 0, val its value) or, once realTime() has
\* redefined it, an accessor pair whose closure holds `value` (val) and the
\* entry `e` (acc, a heap id).
DataSlot(v) == [val |-> v, acc |-> 0]

\* `prop in instance`
HasProp(at, o, p) == p \in DOMAIN at[o]

\* `instance[prop]`: the value of a data property, or what the getter returns
Read(at, o, p) == at[o][p].val

\* `e.instanceRef.deref()` is not undefined
Deref(lv, e) == lv[e.obj]

\* ------------------------------------------------------------ payloads
EmptyPayload == [x \in {} |-> 0]

\* mutation of Put: a key already present keeps its first value
PutKeepsFirst(f, k, v) ==
    [x \in (DOMAIN f) \cup {k} |-> IF x \in DOMAIN f THEN f[x] ELSE v]

\* payload[k] = v
Put(f, k, v) == [x \in (DOMAIN f) \cup {k} |-> IF x = k THEN v ELSE f[x]]

\* Object.keys(payload).length > 0
NonEmpty(f) == DOMAIN f # {}

\* ------------------------------------------------------------ subscribers
\* What a subscriber's callback does: it assigns a value to a property of an
\* object (the first one: the objects are interchangeable), or it switches the
\* mode.
Acts == [kind : {"write"}, obj : {1}, prop : {"a"}, val : Vals]
        \cup [kind : {"all", "changedOnly"}, obj : {0}, prop : {Undefined}, val : {0}]
Listeners == [ev : {"change", "change:full"}, act : Acts]
NoListener == [ev |-> "none",
               act |-> [kind |-> "none", obj |-> 0, prop |-> Undefined, val |-> 0]]

\* this.emit(ev, payload): the notification is recorded and the subscriber of
\* ev, if any, runs synchronously (defined with the assignment below)
RECURSIVE emit(_, _, _)

\* The engine state the handlers work on.
St == [entries |-> entries, heap |-> heap, attrs |-> attrs, mode |-> mode,
       live |-> live, listener |-> listener, out |-> <<>>, threw |-> FALSE]

Commit(st) ==
    /\ entries' = st.entries
    /\ heap' = st.heap
    /\ attrs' = st.attrs
    /\ mode' = st.mode
    /\ out' = st.out

NoArgs == [op |-> "init", obj |-> 0, prop |-> Undefined, key |-> Undefined, val |-> 0,
           items |-> <<>>, ms |-> 0, timer |-> 0, cancelled |-> 0, threw |-> FALSE, warned |-> FALSE]

\* history: the ids of lt that are still registered in en with a live object
stillLate(lt, en, lv, hp) ==
    {id \in lt : lv[hp[id].obj] /\ \E i \in DOMAIN en : en[i] = id}

Init ==
    /\ entries = <<>>
    /\ heap = <<>>
    /\ mode = "changed"
    /\ type = "undefined"
    /\ intervalId = 0
    /\ timers = {}
    /\ attrs = [o \in Objs |-> [p \in PropsOf(o) |-> DataSlot(0)]]
    /\ live = [o \in Objs |-> TRUE]
    /\ finalized = {}
    /\ out = <<>>
    /\ last = NoArgs
    /\ rtCalled = FALSE
    /\ late = {}
    /\ listener = NoListener
    /\ unwatched = {}

\* ---------------------------------------------------------------- watch
\* `key ?? prop`
resolveKey(p, k) == IF k = Undefined THEN p ELSE k

\* addEntry: the guard `!(prop in instance)` that throws
addEntryThrows(at, o, p) == ~HasProp(at, o, p)

\* mutation of newEntry: the custom key is dropped
newEntryIgnoresKey(at, o, p, k) ==
    [obj |-> o, prop |-> p, key |-> p, lastValue |-> Read(at, o, p)]

\* addEntry: the object pushed on this.entries
newEntry(at, o, p, k) ==
    [obj |-> o, prop |-> p, key |-> k, lastValue |-> Read(at, o, p)]

\* watch(instance, prop, key?) with a string property: addEntry(instance, prop,
\* key ?? prop), which also registers (instance, key) with the
\* FinalizationRegistry (the registration is the heap id of the entry).
Watch(o, p, k) ==
    /\ live[o]
    /\ IF addEntryThrows(attrs, o, p)
       THEN /\ last' = [NoArgs EXCEPT !.op = "watch", !.obj = o, !.prop = p,
                                        !.key = k, !.threw = TRUE]
            /\ out' = <<>>
            /\ UNCHANGED <<entries, heap, unwatched, late>>
       ELSE /\ Len(heap) < MaxEntries
            /\ heap' = Append(heap, newEntry(attrs, o, p, resolveKey(p, k)))
            /\ entries' = Append(entries, Len(heap) + 1)
            /\ out' = <<>>
            /\ last' = [NoArgs EXCEPT !.op = "watch", !.obj = o, !.prop = p, !.key = k]
            /\ unwatched' = unwatched \ {o}
            /\ late' = IF rtCalled THEN late \cup {Len(heap) + 1} ELSE late
    /\ UNCHANGED <<mode, type, intervalId, timers, attrs, live, finalized, rtCalled>>
    /\ UNCHANGED listener

\* mutation of watchItems: an item whose property is absent is skipped and
\* the loop goes on
RECURSIVE watchItemsSkipping(_, _, _, _, _)
watchItemsSkipping(acc, at, o, items, i) ==
    IF i > Len(items) THEN acc
    ELSE IF addEntryThrows(at, o, items[i].prop)
         THEN watchItemsSkipping([acc EXCEPT !.threw = TRUE], at, o, items, i + 1)
         ELSE watchItemsSkipping(
                  [acc EXCEPT
                     !.heap = Append(@, newEntry(at, o, items[i].prop,
                                         resolveKey(items[i].prop, items[i].key))),
                     !.entries = Append(@, Len(acc.heap) + 1)],
                  at, o, items, i + 1)

\* watch(instance, props) with an array: the loop
\* `for (const [prop, customKey] of props) this.addEntry(instance, prop,
\* customKey ?? prop)` from item i on; acc holds this.entries, the entry
\* objects, and whether addEntry has thrown
RECURSIVE watchItems(_, _, _, _, _)
watchItems(acc, at, o, items, i) ==
    IF i > Len(items) THEN acc
    ELSE IF addEntryThrows(at, o, items[i].prop)
         THEN [acc EXCEPT !.threw = TRUE]
         ELSE watchItems(
                  [acc EXCEPT
                     !.heap = Append(@, newEntry(at, o, items[i].prop,
                                         resolveKey(items[i].prop, items[i].key))),
                     !.entries = Append(@, Len(acc.heap) + 1)],
                  at, o, items, i + 1)

\* watch(instance, props) with an array of items
WatchBatch(o, items) ==
    /\ live[o]
    /\ LET r == watchItems([entries |-> entries, heap |-> heap, threw |-> FALSE],
                           attrs, o, items, 1)
       IN /\ Len(r.heap) <= MaxEntries
          /\ entries' = r.entries
          /\ heap' = r.heap
          /\ last' = [NoArgs EXCEPT !.op = "watchBatch", !.obj = o, !.items = items,
                                      !.threw = r.threw]
          /\ unwatched' = IF Len(r.heap) > Len(heap) THEN unwatched \ {o}
                          ELSE unwatched
          /\ late' = IF rtCalled THEN late \cup (Len(heap) + 1 .. Len(r.heap))
                     ELSE late
    /\ out' = <<>>
    /\ UNCHANGED <<mode, type, intervalId, timers, attrs, live, finalized, rtCalled>>
    /\ UNCHANGED listener

\* --------------------------------------------------------------- unwatch
\* mutation of unwatchKeeps: the identity comparison is missing
unwatchKeepsLive(lv, e, instance) == Deref(lv, e)

\* the filter predicate of unwatch: `inst && inst !== instance`
unwatchKeeps(lv, e, instance) == Deref(lv, e) /\ e.obj # instance

Unwatch(o) ==
    /\ live[o]
    /\ entries' = SelectSeq(entries, LAMBDA id : unwatchKeeps(live, heap[id], o))
    /\ out' = <<>>
    /\ last' = [NoArgs EXCEPT !.op = "unwatch", !.obj = o]
    /\ unwatched' = unwatched \cup {o}
    /\ late' = stillLate(late, entries', live, heap)
    /\ UNCHANGED rtCalled
    /\ UNCHANGED <<heap, mode, type, intervalId, timers, attrs, live, finalized>>
    /\ UNCHANGED listener

\* ------------------------------------------------------- all / changedOnly
\* mutation of All: the other mode is selected
AllSetsChanged ==
    /\ mode' = "changed"
    /\ out' = <<>>
    /\ last' = [NoArgs EXCEPT !.op = "all"]
    /\ UNCHANGED hist
    /\ UNCHANGED <<entries, heap, type, intervalId, timers, attrs, live, finalized>>
    /\ UNCHANGED listener

All ==
    /\ mode' = "all"
    /\ out' = <<>>
    /\ last' = [NoArgs EXCEPT !.op = "all"]
    /\ UNCHANGED hist
    /\ UNCHANGED <<entries, heap, type, intervalId, timers, attrs, live, finalized>>
    /\ UNCHANGED listener

ChangedOnly ==
    /\ mode' = "changed"
    /\ out' = <<>>
    /\ last' = [NoArgs EXCEPT !.op = "changedOnly"]
    /\ UNCHANGED hist
    /\ UNCHANGED <<entries, heap, type, intervalId, timers, attrs, live, finalized>>
    /\ UNCHANGED listener

\* ----------------------------------------------------------------- clear
\* mutation of clear: the reference is dropped, the timer is not cancelled
clearForgetsTimer(iid, tm) == [intervalId |-> 0, timers |-> tm]

\* mutation of clear: nothing is done
clearNothing(iid, tm) == [intervalId |-> iid, timers |-> tm]

\* clear(): clearInterval(this.intervalId) and this.intervalId = null, when
\* this.intervalId is set
clear(iid, tm) ==
    IF iid # 0
    THEN [intervalId |-> 0, timers |-> {t \in tm : t.id # iid}]
    ELSE [intervalId |-> iid, timers |-> tm]

\* log: the interval of the timer that clear() cancels, 0 when it cancels none
cancelledMs(iid, tm) ==
    IF \E t \in tm : t.id = iid THEN (CHOOSE t \in tm : t.id = iid).ms ELSE 0

\* ----------------------------------------------------------------- clock
\* setInterval returns a timer distinct from every active one (a cancelled
\* timer is referenced by nothing, so its id may name a later timer)
newTimerId(tm) == CHOOSE i \in 1..(Cardinality(tm) + 1) : \A t \in tm : t.id # i

\* mutation of clockThrows: the guard is missing
clockNeverThrows(t) == FALSE

\* the guard of clock() that throws
clockThrows(t) == t = "real-time"

\* clock(ms)
Clock(ms) ==
    IF clockThrows(type)
    THEN /\ last' = [NoArgs EXCEPT !.op = "clock", !.ms = ms, !.threw = TRUE]
         /\ UNCHANGED hist
         /\ out' = <<>>
         /\ UNCHANGED <<entries, heap, mode, type, intervalId, timers,
                        attrs, live, finalized, listener>>
    ELSE /\ type' = "clock"
         /\ LET c == clear(intervalId, timers)
                id == newTimerId(c.timers)
            IN /\ intervalId' = id
               /\ timers' = c.timers \cup {[id |-> id, ms |-> ms]}
         /\ out' = <<>>
         /\ last' = [NoArgs EXCEPT !.op = "clock", !.ms = ms,
                                     !.cancelled = cancelledMs(intervalId, timers)]
         /\ UNCHANGED hist
         /\ UNCHANGED <<entries, heap, mode, attrs, live, finalized, listener>>

\* ------------------------------------------------------------ the payloads
\* buildAllPayload(): the loop over this.entries, from entry i on
RECURSIVE buildAllFrom(_, _, _)
buildAllFrom(st, i, payload) ==
    IF i > Len(st.entries) THEN payload
    ELSE LET e == st.heap[st.entries[i]] IN
         buildAllFrom(st, i + 1,
                      IF Deref(st.live, e)
                      THEN Put(payload, e.key, Read(st.attrs, e.obj, e.prop))
                      ELSE payload)

buildAllPayload(st) == buildAllFrom(st, 1, EmptyPayload)

\* mutation of fullPair: old is stamped with the current value
fullPairOldIsNew(st, e) ==
    [new |-> Read(st.attrs, e.obj, e.prop), old |-> Read(st.attrs, e.obj, e.prop)]

\* buildFullAllPayload(): the value stored under e.key,
\* { new: instance[e.prop], old: e.lastValue }
fullPair(st, e) ==
    [new |-> Read(st.attrs, e.obj, e.prop), old |-> e.lastValue]

\* buildFullAllPayload(): the loop over this.entries, from entry i on
RECURSIVE buildFullAllFrom(_, _, _)
buildFullAllFrom(st, i, payload) ==
    IF i > Len(st.entries) THEN payload
    ELSE LET e == st.heap[st.entries[i]] IN
         buildFullAllFrom(st, i + 1,
                          IF Deref(st.live, e)
                          THEN Put(payload, e.key, fullPair(st, e))
                          ELSE payload)

\* buildFullAllPayload() throws unless the mode is 'all'
buildFullAllThrows(st) == st.mode # "all"

buildFullAllPayload(st) == buildFullAllFrom(st, 1, EmptyPayload)

\* -------------------------------------------------------------- realTime
\* the body of this.entries.forEach in realTime(), for the entry with heap id
\* `id`: Object.defineProperty(instance, e.prop, {get, set}) with the closure
\* variable `value` initialised to instance[e.prop]
defineAccessor(at, lv, hp, id) ==
    LET e == hp[id] IN
    IF ~Deref(lv, e) THEN at
    ELSE [at EXCEPT ![e.obj][e.prop] = [val |-> Read(at, e.obj, e.prop), acc |-> id]]

RECURSIVE defineFrom(_, _, _, _, _)
defineFrom(at, lv, hp, es, i) ==
    IF i > Len(es) THEN at
    ELSE defineFrom(defineAccessor(at, lv, hp, es[i]), lv, hp, es, i + 1)

\* mutation of RealTime: the warning is emitted by the first call only
RealTimeWarnsOnce ==
    /\ type' = "real-time"
    /\ LET c == clear(intervalId, timers) IN
         /\ intervalId' = c.intervalId
         /\ timers' = c.timers
    /\ attrs' = defineFrom(attrs, live, heap, entries, 1)
    /\ out' = <<>>
    /\ last' = [NoArgs EXCEPT !.op = "realTime", !.warned = ~rtCalled,
                                !.cancelled = cancelledMs(intervalId, timers)]
    /\ rtCalled' = TRUE
    /\ late' = {}
    /\ UNCHANGED unwatched
    /\ UNCHANGED <<entries, heap, mode, live, finalized>>
    /\ UNCHANGED listener

\* realTime()
RealTime ==
    /\ type' = "real-time"
    /\ LET c == clear(intervalId, timers) IN
         /\ intervalId' = c.intervalId
         /\ timers' = c.timers
    /\ attrs' = defineFrom(attrs, live, heap, entries, 1)
    /\ out' = <<>>
    /\ last' = [NoArgs EXCEPT !.op = "realTime", !.warned = TRUE,
                                !.cancelled = cancelledMs(intervalId, timers)]
    /\ rtCalled' = TRUE
    /\ late' = {}
    /\ UNCHANGED unwatched
    /\ UNCHANGED <<entries, heap, mode, live, finalized>>
    /\ UNCHANGED listener

\* ------------------------------------------------------------ the setter
\* the detailed payload the setter builds when the mode is not 'all'
setterFullChanged(e, v) ==
    IF v # e.lastValue
    THEN Put(EmptyPayload, e.key, [new |-> v, old |-> e.lastValue])
    ELSE EmptyPayload

\* mutation of publish: the detailed notification is emitted first
publishFullFirst(st, payload, fullPayload) ==
    LET s2 == IF NonEmpty(fullPayload)
              THEN emit(st, "change:full", fullPayload) ELSE st
    IN IF ~s2.threw /\ NonEmpty(payload) THEN emit(s2, "change", payload) ELSE s2

\* the setter: the two emit statements, each guarded by
\* Object.keys(...).length > 0; an exception out of the first emit skips the
\* second
publish(st, payload, fullPayload) ==
    LET s2 == IF NonEmpty(payload) THEN emit(st, "change", payload) ELSE st
    IN IF ~s2.threw /\ NonEmpty(fullPayload)
       THEN emit(s2, "change:full", fullPayload) ELSE s2

\* mutation of callsFullAll: the detailed snapshot is built under any mode
callsFullAllAlways(m) == TRUE

\* the setter: the test `this.mode === 'all'` that selects
\* this.buildFullAllPayload()
callsFullAll(m) == m = "all"

\* mutation of setLastValue: every entry of the same object and property is
\* brought up to date
setLastValueAll(hp, id, v) ==
    [x \in DOMAIN hp |->
        IF hp[x].obj = hp[id].obj /\ hp[x].prop = hp[id].prop
        THEN [hp[x] EXCEPT !.lastValue = v] ELSE hp[x]]

\* the setter: e.lastValue = v, e being the entry captured by the closure
setLastValue(hp, id, v) == [hp EXCEPT ![id].lastValue = v]

\* the setter installed by realTime() for the entry with heap id `id`, called
\* with v; st.attrs[o][p] is the slot holding the closure
setter(st, o, p, id, v) ==
    IF v = st.attrs[o][p].val THEN st
    ELSE
      LET s1 == [st EXCEPT !.attrs[o][p].val = v]
          e == s1.heap[id]
          \* buildFullAllPayload() is entered when the mode is 'all'
          fullThrows == /\ s1.mode # "undefined"
                        /\ callsFullAll(s1.mode)
                        /\ buildFullAllThrows(s1)
          fullPayload == IF callsFullAll(s1.mode) THEN buildFullAllPayload(s1)
                         ELSE setterFullChanged(e, v)
          payload == IF s1.mode = "all" THEN buildAllPayload(s1)
                     ELSE Put(EmptyPayload, e.key, v)
          s3 == IF s1.mode # "undefined"
                THEN publish(s1, payload, fullPayload) ELSE s1
      IN IF fullThrows THEN [s1 EXCEPT !.threw = TRUE]
         ELSE IF s3.threw THEN s3
         ELSE [s3 EXCEPT !.heap = setLastValue(s3.heap, id, v)]

\* the assignment `obj.p = v` by the program that owns obj
assign(st, o, p, v) ==
    IF st.attrs[o][p].acc = 0
    THEN [st EXCEPT !.attrs[o][p].val = v]
    ELSE setter(st, o, p, st.attrs[o][p].acc, v)

\* the subscriber's callback
listen(st, act) ==
    CASE act.kind = "write" -> assign(st, act.obj, act.prop, act.val)
      [] act.kind = "all" -> [st EXCEPT !.mode = "all"]
      [] act.kind = "changedOnly" -> [st EXCEPT !.mode = "changed"]

emit(st, ev, payload) ==
    LET s1 == [st EXCEPT !.out = Append(@, [ev |-> ev, payload |-> payload])]
    IN IF st.listener.ev = ev THEN listen(s1, st.listener.act) ELSE s1

\* on(ev, fn): the subscriber is added (one subscriber, added once)
Subscribe(l) ==
    /\ listener = NoListener
    /\ listener' = l
    /\ out' = <<>>
    /\ last' = [NoArgs EXCEPT !.op = "on"]
    /\ UNCHANGED hist
    /\ UNCHANGED <<entries, heap, mode, type, intervalId, timers, attrs, live, finalized>>

Write(o, p, v) ==
    /\ live[o]
    /\ HasProp(attrs, o, p)
    /\ LET st == assign(St, o, p, v) IN
         /\ Commit(st)
         /\ last' = [NoArgs EXCEPT !.op = "write", !.obj = o, !.prop = p, !.val = v,
                                     !.threw = st.threw]
    /\ UNCHANGED hist
    /\ UNCHANGED <<type, intervalId, timers, live, finalized>>
    /\ UNCHANGED listener

\* ----------------------------------------------------------------- check
\* mutation of includeInUpdates: every entry is included, whatever the mode
includeAlways(m, changed) == TRUE

\* mutation of includeInUpdates: only changed entries, whatever the mode
includeChangedOnly(m, changed) == changed

\* check(): `this.mode === 'all' || changed`
includeInUpdates(m, changed) == m = "all" \/ changed

\* mutation of newLastValue: the tick never stores what it read
newLastValueStale(e, current, changed) == e.lastValue

\* check(): if (changed) e.lastValue = current
newLastValue(e, current, changed) == IF changed THEN current ELSE e.lastValue

\* mutation of checkKeeps: the filter callback returns `changed`
checkKeepsChanged(changed) == changed

\* check(): the filter callback's result for an entry whose object derefs
\* (return true)
checkKeeps(changed) == TRUE

\* check(): the filter callback for the entry with heap id `id`; acc holds
\* the entries kept so far, the heap and the updates so far
checkEntry(acc, st, id) ==
    LET e == acc.heap[id] IN
    IF ~Deref(st.live, e) THEN acc
    ELSE LET current == Read(st.attrs, e.obj, e.prop)
             changed == current # e.lastValue
         IN [entries |-> IF checkKeeps(changed)
                         THEN Append(acc.entries, id) ELSE acc.entries,
             updates |-> IF includeInUpdates(st.mode, changed)
                         THEN Put(acc.updates, e.key, current)
                         ELSE acc.updates,
             heap |-> [acc.heap EXCEPT
                          ![id].lastValue = newLastValue(e, current, changed)]]

RECURSIVE checkFrom(_, _, _)
checkFrom(acc, st, i) ==
    IF i > Len(st.entries) THEN acc
    ELSE checkFrom(checkEntry(acc, st, st.entries[i]), st, i + 1)

\* mutation of check: the tick also publishes the {new, old} pairs
checkWithFull(st) ==
    LET r == checkFrom([entries |-> <<>>, updates |-> EmptyPayload, heap |-> st.heap],
                       st, 1)
        s1 == [st EXCEPT !.entries = r.entries, !.heap = r.heap]
        s2 == IF NonEmpty(r.updates) THEN emit(s1, "change", r.updates) ELSE s1
    IN IF NonEmpty(r.updates)
       THEN emit(s2, "change:full", buildFullAllFrom(st, 1, EmptyPayload))
       ELSE s2

\* check()
check(st) ==
    LET r == checkFrom([entries |-> <<>>, updates |-> EmptyPayload, heap |-> st.heap],
                       st, 1)
        s1 == [st EXCEPT !.entries = r.entries, !.heap = r.heap]
    IN IF NonEmpty(r.updates) THEN emit(s1, "change", r.updates) ELSE s1

\* an active interval timer fires: () => this.check()
Tick(t) ==
    /\ t \in timers
    /\ Commit(check(St))
    /\ last' = [NoArgs EXCEPT !.op = "tick", !.timer = t.id, !.ms = t.ms]
    /\ UNCHANGED hist
    /\ UNCHANGED <<type, intervalId, timers, live, finalized>>
    /\ UNCHANGED listener

\* ------------------------------------------------------ garbage collection
\* The program drops its last reference to o and the collector reclaims it
\* (the storage of o is gone: its slots are reset).
Collect(o) ==
    /\ live[o]
    /\ live' = [live EXCEPT ![o] = FALSE]
    /\ attrs' = [attrs EXCEPT ![o] = [p \in PropsOf(o) |-> DataSlot(0)]]
    /\ out' = <<>>
    /\ last' = [NoArgs EXCEPT !.op = "collect", !.obj = o]
    /\ late' = stillLate(late, entries, live', heap)
    /\ UNCHANGED <<rtCalled, unwatched>>
    /\ UNCHANGED <<entries, heap, mode, type, intervalId, timers, finalized>>
    /\ UNCHANGED listener

\* the FinalizationRegistry callback, called with the held value `key`
finalizerKeeps(e, key) == e.key # key

\* The callback runs once for each registration made by addEntry for a
\* collected object; the held value is the key of that entry.
Finalize(id) ==
    /\ id \in 1..Len(heap)
    /\ id \notin finalized
    /\ ~live[heap[id].obj]
    /\ entries' = SelectSeq(entries, LAMBDA x : finalizerKeeps(heap[x], heap[id].key))
    /\ finalized' = finalized \cup {id}
    /\ out' = <<>>
    /\ last' = [NoArgs EXCEPT !.op = "finalize", !.obj = heap[id].obj, !.key = heap[id].key]
    /\ late' = stillLate(late, entries', live, heap)
    /\ UNCHANGED <<rtCalled, unwatched>>
    /\ UNCHANGED <<heap, mode, type, intervalId, timers, attrs, live>>
    /\ UNCHANGED listener

\* ------------------------------------------------------------------ next
Next ==
    \/ \E o \in Objs, p \in Props, k \in Keys \cup {Undefined} : Watch(o, p, k)
    \/ \E o \in Objs : Unwatch(o)
    \/ All
    \/ ChangedOnly
    \/ \E ms \in Intervals : Clock(ms)
    \/ RealTime
    \/ \E o \in Objs, p \in Props, v \in Vals : Write(o, p, v)
    \/ \E t \in timers : Tick(t)
    \/ \E o \in Objs : Collect(o)
    \/ \E id \in 1..MaxEntries : Finalize(id)

Spec == Init /\ [][Next]_vars

\* The registry under array registrations: watch() in both forms, unwatch(),
\* and what changes the objects addEntry() reads (assignments, realTime(),
\* collection).
NextBatch ==
    \/ \E o \in Objs, p \in Props, k \in Keys \cup {Undefined} : Watch(o, p, k)
    \/ \E o \in Objs, items \in Batches : WatchBatch(o, items)
    \/ \E o \in Objs : Unwatch(o)
    \/ RealTime
    \/ \E o \in Objs, p \in Props, v \in Vals : Write(o, p, v)
    \/ \E o \in Objs : Collect(o)

SpecBatch == Init /\ [][NextBatch]_vars

\* The public surface with a subscriber whose callback assigns to a watched
\* property or switches the mode while a notification is being emitted.
NextSub ==
    \/ \E l \in Listeners : Subscribe(l)
    \/ \E o \in Objs, p \in Props, k \in Keys \cup {Undefined} : Watch(o, p, k)
    \/ \E o \in Objs : Unwatch(o)
    \/ All
    \/ ChangedOnly
    \/ \E ms \in SubIntervals : Clock(ms)
    \/ RealTime
    \/ \E o \in Objs, p \in Props, v \in Vals : Write(o, p, v)
    \/ \E t \in timers : Tick(t)

SpecSub == Init /\ [][NextSub]_vars

\* =================================================================== claims
Range(f) == {f[i] : i \in DOMAIN f}

\* C1: once realTime() has been called, every clock(ms) call throws and
\* leaves the engine as it was: the type stays 'real-time', no timer is
\* started, the entries and their lastValue are unchanged and no property is
\* redefined.
C1_ClockAfterRealTimeFails ==
    [][(last'.op = "clock" /\ rtCalled) =>
          /\ last'.threw
          /\ type = "real-time" /\ type' = "real-time"
          /\ timers' = timers /\ timers' = {}
          /\ intervalId' = intervalId
          /\ entries' = entries
          /\ heap' = heap
          /\ attrs' = attrs
          /\ mode' = mode
          /\ out' = <<>>]_vars

\* C1 witness: clock() has just thrown after realTime() rewrote a watched
\* property
C1_Witness ==
    /\ last.op = "clock"
    /\ last.threw
    /\ rtCalled
    /\ \E i \in DOMAIN entries : attrs[heap[entries[i]].obj]["a"].acc = entries[i]

\* C2: watch(obj, attr, key?) throws and leaves the registry unchanged when
\* attr is not a property of obj; otherwise it appends exactly one entry, of
\* obj and attr, whose key is key (attr when key is omitted) and whose
\* lastValue is the value of the property at that moment.
C2_WatchRegistersOrFails ==
    [][last'.op = "watch" =>
          LET o == last'.obj
              p == last'.prop
              k == last'.key
          IN IF p \notin DOMAIN attrs[o]
             THEN /\ last'.threw
                  /\ entries' = entries
                  /\ heap' = heap
             ELSE /\ ~last'.threw
                  /\ Len(entries') = Len(entries) + 1
                  /\ SubSeq(entries', 1, Len(entries)) = entries
                  /\ entries'[Len(entries')] \notin Range(entries)
                  /\ \A id \in Range(entries) : heap'[id] = heap[id]
                  /\ LET e == heap'[entries'[Len(entries')]] IN
                       /\ e.obj = o
                       /\ e.prop = p
                       /\ e.key = (IF k = Undefined THEN p ELSE k)
                       /\ e.lastValue = attrs[o][p].val
                       /\ e.lastValue = attrs'[o][p].val]_vars

\* C2 witness: a watch() of a missing property has just thrown while an entry
\* with a custom key and a lastValue read from a modified property is
\* registered
C2_Witness ==
    /\ last.op = "watch"
    /\ last.threw
    /\ \E i \in DOMAIN entries :
          /\ heap[entries[i]].key = "k"
          /\ heap[entries[i]].lastValue = 1


\* C3: under the changed mode, an assignment to a property that realTime()
\* redefined for a registered entry emits, when the value differs from the
\* current one, exactly one 'change' {key: new} and then exactly one
\* 'change:full' {key: {new, old: the previous value}}, and nothing when the
\* value is the current one.
C3_InterceptedWriteNotifies ==
    [][(/\ last'.op = "write"
        /\ mode = "changed"
        /\ attrs[last'.obj][last'.prop].acc \in Range(entries)) =>
          LET slot == attrs[last'.obj][last'.prop]
              e == heap[slot.acc]
              v == last'.val
          IN IF v # slot.val
             THEN out' = << [ev |-> "change", payload |-> (e.key :> v)],
                            [ev |-> "change:full",
                             payload |-> (e.key :> [new |-> v, old |-> slot.val])] >>
             ELSE out' = <<>>]_vars

\* ---- the entries a detection pass reads, in the state before the pass
\* positions of this.entries whose object can be dereferenced
LiveIdx == {i \in DOMAIN entries : live[heap[entries[i]].obj]}
KeyAt(i) == heap[entries[i]].key
Cur(i) == attrs[heap[entries[i]].obj][heap[entries[i]].prop].val
ChangedIdx == {i \in LiveIdx : Cur(i) # heap[entries[i]].lastValue}
\* the last position of S that carries key k
LastWith(S, k) == CHOOSE i \in S : KeyAt(i) = k /\ \A j \in S : KeyAt(j) = k => j <= i
\* key -> current value for the positions S (of two entries that share a
\* key, the later-registered one gives the value)
Snapshot(S) == [k \in {KeyAt(i) : i \in S} |-> Cur(LastWith(S, k))]

\* C4: under changed + clock, a tick emits no notification when no live
\* entry's value differs from its lastValue, and otherwise exactly one
\* 'change' whose payload maps exactly the keys of the entries that differ to
\* their current values.
C4_TickChangedOnly ==
    [][(last'.op = "tick" /\ type = "clock" /\ mode = "changed") =>
          /\ Len(out') <= 1
          /\ IF ChangedIdx = {}
             THEN out' = <<>>
             ELSE out' = << [ev |-> "change", payload |-> Snapshot(ChangedIdx)] >>]_vars

\* C4 witness: a tick under the changed mode has just reported one of two
\* live entries with different keys, the other being absent from the payload
C4_Witness ==
    /\ last.op = "tick"
    /\ mode = "changed"
    /\ Len(entries) = 2
    /\ LiveIdx = {1, 2}
    /\ KeyAt(1) # KeyAt(2)
    /\ Len(out) = 1
    /\ out[1].ev = "change"
    /\ Cardinality(DOMAIN out[1].payload) = 1

\* C5: under all + clock, a tick with at least one live entry emits exactly
\* one 'change' whose payload holds the current value of every live entry
\* under its key, changed or not.
C5_TickAll ==
    [][(last'.op = "tick" /\ type = "clock" /\ mode = "all" /\ LiveIdx # {}) =>
          out' = << [ev |-> "change", payload |-> Snapshot(LiveIdx)] >>]_vars

\* C5 witness: a tick under the all mode has just reported two live entries
\* with different keys and different values
C5_Witness ==
    /\ last.op = "tick"
    /\ mode = "all"
    /\ LiveIdx = {1, 2}
    /\ KeyAt(1) # KeyAt(2)
    /\ Cur(1) # Cur(2)
    /\ Len(out) = 1
    /\ out[1].payload = Snapshot({1, 2})

\* In clock mode no tick reports an entry of an object that was unwatched (and
\* not watched again): every key of the payload is the key of a live entry of
\* another object, with that entry's current value.
TickSkipsUnwatched ==
    (last'.op = "tick" /\ type = "clock") =>
        \A n \in DOMAIN out' : \A k \in DOMAIN out'[n].payload :
            \E i \in LiveIdx : /\ heap[entries[i]].obj \notin unwatched
                               /\ KeyAt(i) = k
                               /\ Cur(i) = out'[n].payload[k]

\* C6 as stated: unwatch(obj) removes exactly the entries of obj and leaves
\* every other entry in place, in order, with its lastValue; afterwards no
\* tick reports an entry of obj.
C6_UnwatchRemovesOnlyObj ==
    [][/\ last'.op = "unwatch" =>
            /\ entries' = SelectSeq(entries, LAMBDA id : heap[id].obj # last'.obj)
            /\ heap' = heap
       /\ TickSkipsUnwatched]_vars

\* C6 amended: unwatch(obj) removes the entries of obj and the entries whose
\* object has been collected, and leaves every entry of another live object
\* in place, in order, with its lastValue; afterwards no tick reports an
\* entry of obj.
C6_UnwatchRemovesObjAndDead ==
    [][/\ last'.op = "unwatch" =>
            /\ entries' = SelectSeq(entries, LAMBDA id : /\ heap[id].obj # last'.obj
                                                          /\ live[heap[id].obj])
            /\ heap' = heap
            /\ \A id \in Range(entries') : heap'[id].obj \notin unwatched'
       /\ TickSkipsUnwatched]_vars

\* C6 witness: unwatch(obj) has just removed an entry of obj and kept the
\* entry of another object, in clock mode
C6_Witness ==
    /\ last.op = "unwatch"
    /\ type = "clock"
    /\ Len(entries) = 1
    /\ heap[entries[1]].obj # last.obj
    /\ \E id \in DOMAIN heap : id \notin Range(entries) /\ heap[id].obj = last.obj

\* C7: after unwatch(obj), an assignment to a property of obj emits no
\* notification, also when realTime() had redefined the property.
C7_UnwatchStopsNotifications ==
    [][(last'.op = "write" /\ last'.obj \in unwatched) => out' = <<>>]_vars

\* C8: an entry whose object is live leaves this.entries only in an
\* unwatch() of that object; and once every finalization callback of a
\* collected object has run, no entry of that object is left.
C8_EntryRemovedOnlyWithItsObject ==
    [][/\ \A id \in Range(entries) :
            (/\ live'[heap[id].obj]
             /\ ~(last'.op = "unwatch" /\ last'.obj = heap[id].obj))
            => id \in Range(entries')
       /\ \A o \in Objs :
            (/\ ~live'[o]
             /\ \A id \in DOMAIN heap' : heap'[id].obj = o => id \in finalized')
            => \A id \in Range(entries') : heap'[id].obj # o]_vars

\* C9: at most one interval timer is active, the one this.intervalId names; a
\* successful clock(ms) leaves exactly the timer it scheduled, with interval
\* ms; only an active timer fires, and only clock() and realTime() change the
\* timers.
TimerInv ==
    /\ Cardinality(timers) <= 1
    /\ \A t \in timers : t.id = intervalId

C9_AtMostOneTimer ==
    [][/\ TimerInv'
       /\ (last'.op = "clock" /\ ~last'.threw) =>
               timers' = {[id |-> intervalId', ms |-> last'.ms]}
       /\ last'.op = "tick" =>
               /\ [id |-> last'.timer, ms |-> last'.ms] \in timers
               /\ last'.timer = intervalId
       /\ last'.op \notin {"clock", "realTime"} =>
               timers' = timers /\ intervalId' = intervalId]_vars

\* C9 witness: clock(b) has just replaced the timer of an earlier clock(a)
\* with a different interval, and only the timer of interval b is active
C9_Witness ==
    /\ last.op = "clock"
    /\ last.cancelled # 0
    /\ last.cancelled # last.ms
    /\ timers = {[id |-> intervalId, ms |-> last.ms]}

\* C10: once realTime() has been called the type is 'real-time' for good, no
\* timer is active and no tick runs.
C10_RealTimeCancelsPolling ==
    [][rtCalled' =>
          /\ type' = "real-time"
          /\ timers' = {}
          /\ intervalId' = 0
          /\ last'.op # "tick"]_vars

\* C10 witness: realTime() has just cancelled an active timer
C10_Witness ==
    /\ last.op = "realTime"
    /\ last.cancelled # 0
    /\ type = "real-time"
    /\ timers = {}

\* C11: in the notifications of one detection pass (one tick or one
\* intercepted assignment), every 'change' precedes every 'change:full'.
C11_ChangeBeforeFull ==
    \A i, j \in DOMAIN out :
        (out[i].ev = "change" /\ out[j].ev = "change:full") => i < j

\* C11 witness: an intercepted assignment has just published both
\* notifications
C11_Witness ==
    /\ last.op = "write"
    /\ Len(out) = 2
    /\ out[1].ev = "change"
    /\ out[2].ev = "change:full"
    /\ mode = "all"

\* C12: the first payload of a detection pass under the all mode has exactly
\* the keys of the live entries; an entry that no later live entry shares its
\* key with is mapped to the current value of its own object's property (so
\* with pairwise distinct keys there is one key per live entry, each with its
\* own value), and a shared key carries the value of the later-registered
\* entry.
C12_AllSnapshotKeys ==
    [][(last'.op \in {"tick", "write"} /\ mode = "all" /\ out' # <<>>) =>
          LET P == out'[1].payload
              now(i) == attrs'[heap[entries[i]].obj][heap[entries[i]].prop].val
              distinct == \A i, j \in LiveIdx : i # j => KeyAt(i) # KeyAt(j)
          IN /\ DOMAIN P = {KeyAt(i) : i \in LiveIdx}
             /\ distinct => Cardinality(DOMAIN P) = Cardinality(LiveIdx)
             /\ \A i \in LiveIdx :
                   (\A j \in LiveIdx : j > i => KeyAt(j) # KeyAt(i)) =>
                       P[KeyAt(i)] = now(i)]_vars

\* C12 witness: a pass under the all mode has just published a snapshot of two
\* live entries of different objects that share a key and hold different
\* values; the snapshot has the one key, with the second entry's value
C12_Witness ==
    /\ last.op \in {"tick", "write"}
    /\ mode = "all"
    /\ Len(entries) = 2
    /\ LiveIdx = {1, 2}
    /\ heap[entries[1]].obj # heap[entries[2]].obj
    /\ KeyAt(1) = KeyAt(2)
    /\ Cur(1) # Cur(2)
    /\ out # <<>>
    /\ out[1].payload = (KeyAt(2) :> Cur(2))

\* C13: under the all mode, an assignment of a value different from the
\* current one to a property that realTime() redefined publishes, when some
\* entry is live, 'change' with the current value of every live entry and
\* then 'change:full' with a {new, old} pair for every live entry: new is the
\* entry's current value (the assigned value for the entry the setter is bound
\* to) and old is the entry's lastValue from before the assignment.
C13_InterceptedWriteAll ==
    [][(/\ last'.op = "write"
        /\ mode = "all"
        /\ attrs[last'.obj][last'.prop].acc # 0
        /\ last'.val # attrs[last'.obj][last'.prop].val) =>
          LET now(i) == attrs'[heap[entries[i]].obj][heap[entries[i]].prop].val
              keys == {KeyAt(i) : i \in LiveIdx}
              snap == [k \in keys |-> now(LastWith(LiveIdx, k))]
              full == [k \in keys |->
                          [new |-> now(LastWith(LiveIdx, k)),
                           old |-> heap[entries[LastWith(LiveIdx, k)]].lastValue]]
              w == attrs[last'.obj][last'.prop].acc
          IN /\ out' = IF LiveIdx = {} THEN <<>>
                       ELSE << [ev |-> "change", payload |-> snap],
                               [ev |-> "change:full", payload |-> full] >>
             /\ \A i \in LiveIdx :
                   (entries[i] = w /\ LastWith(LiveIdx, KeyAt(i)) = i) =>
                       /\ out'[1].payload[KeyAt(i)] = last'.val
                       /\ out'[2].payload[KeyAt(i)] =
                              [new |-> last'.val, old |-> heap[w].lastValue]]_vars

\* C13 witness: an assignment under the all mode has just published both
\* snapshots of two live entries with different keys; the entry the setter is
\* bound to shows the assigned value as new and a different old value, the
\* other entry shows its own value and lastValue
C13_Witness ==
    /\ last.op = "write"
    /\ mode = "all"
    /\ Len(entries) = 2
    /\ LiveIdx = {1, 2}
    /\ KeyAt(1) # KeyAt(2)
    /\ Len(out) = 2
    /\ \E i \in {1, 2} :
          /\ attrs[last.obj][last.prop].acc = entries[i]
          /\ out[1].payload[KeyAt(i)] = last.val
          /\ out[2].payload[KeyAt(i)].new = last.val
          /\ out[2].payload[KeyAt(i)].old # last.val
          /\ out[2].payload[KeyAt(3 - i)].new = Cur(3 - i)
          /\ out[2].payload[KeyAt(3 - i)].old = heap[entries[3 - i]].lastValue
          /\ heap[entries[3 - i]].obj # last.obj

\* C14: after a tick, under either mode, the lastValue of every live entry is
\* the value the tick read from its property, and no other field of any entry
\* object has changed (so lastValue is overwritten exactly where the value
\* differed); a tick that directly follows a tick emits nothing under the
\* changed mode.
C14_TickRefreshesLastValue ==
    [][/\ last'.op = "tick" =>
            /\ \A i \in LiveIdx : heap'[entries[i]].lastValue = Cur(i)
            /\ DOMAIN heap' = DOMAIN heap
            /\ \A id \in DOMAIN heap :
                  \/ heap'[id] = heap[id]
                  \/ /\ \E i \in ChangedIdx : entries[i] = id
                     /\ heap'[id] = [heap[id] EXCEPT
                            !.lastValue = attrs[heap[id].obj][heap[id].prop].val]
            /\ attrs' = attrs
       /\ (last.op = "tick" /\ last'.op = "tick" /\ mode = "changed") =>
            out' = <<>>]_vars

\* C14 witness: a tick under the changed mode has just reported one live
\* entry, whose lastValue now is the value read, and left out another live
\* entry, whose lastValue already was its value
C14_Witness ==
    /\ last.op = "tick"
    /\ mode = "changed"
    /\ LiveIdx = {1, 2}
    /\ Len(out) = 1
    /\ \E i \in {1, 2} :
          /\ DOMAIN out[1].payload = {KeyAt(i)}
          /\ out[1].payload[KeyAt(i)] = 1
          /\ heap[entries[i]].lastValue = 1
          /\ Cur(i) = 1
          /\ KeyAt(3 - i) # KeyAt(i)
          /\ heap[entries[3 - i]].lastValue = Cur(3 - i)

\* C15: a tick publishes 'change' only, and as long as realTime() has not
\* been called no step publishes 'change:full'.
C15_PollNeverPublishesFull ==
    [][/\ last'.op = "tick" => \A n \in DOMAIN out' : out'[n].ev = "change"
       /\ ~rtCalled' => \A n \in DOMAIN out' : out'[n].ev # "change:full"]_vars

\* C15 witness: before any realTime(), a tick under the all mode has just
\* published its one 'change' for two live entries, one holding a modified
\* value
C15_Witness ==
    /\ ~rtCalled
    /\ last.op = "tick"
    /\ mode = "all"
    /\ LiveIdx = {1, 2}
    /\ Len(out) = 1
    /\ out[1].ev = "change"
    /\ \E k \in DOMAIN out[1].payload : out[1].payload[k] = 1

\* C16 as stated: a tick and an intercepted assignment leave this.entries
\* exactly as it was; an entry whose object no longer derefs stays registered
\* through the tick.
C16_DetectorsKeepEntries ==
    [][last'.op \in {"tick", "write"} => entries' = entries]_vars

\* C16 amended: a tick removes from this.entries exactly the entries whose
\* object no longer derefs and keeps the others in order; an assignment leaves
\* this.entries as it was; neither creates an entry object nor changes the
\* object, property or key of one.
C16_TickDropsOnlyDead ==
    [][last'.op \in {"tick", "write"} =>
          /\ entries' = IF last'.op = "tick"
                        THEN SelectSeq(entries, LAMBDA id : live[heap[id].obj])
                        ELSE entries
          /\ DOMAIN heap' = DOMAIN heap
          /\ \A id \in DOMAIN heap :
                /\ heap'[id].obj = heap[id].obj
                /\ heap'[id].prop = heap[id].prop
                /\ heap'[id].key = heap[id].key]_vars

\* C16 witness: after a tick, the entry of a collected object whose
\* finalization callback has not run is no longer registered, while the entry
\* of a live object is, and no unwatch() is on record
C16_Witness ==
    /\ last.op = "tick"
    /\ unwatched = {}
    /\ Len(entries) = 1
    /\ live[heap[entries[1]].obj]
    /\ \E id \in DOMAIN heap :
          /\ ~live[heap[id].obj]
          /\ id \notin finalized
          /\ id \notin Range(entries)

\* C17: all() and changedOnly() never throw, set the mode they name, change
\* nothing else and emit nothing; the detection pass that directly follows
\* builds its payload under the mode just selected.
C17_PolicySwitch ==
    [][/\ last'.op \in {"all", "changedOnly"} =>
            /\ ~last'.threw
            /\ mode' = IF last'.op = "all" THEN "all" ELSE "changed"
            /\ out' = <<>>
            /\ UNCHANGED <<entries, heap, type, intervalId, timers, attrs, live,
                           finalized>>
       /\ (last.op \in {"all", "changedOnly"} /\ last'.op = "tick") =>
            LET S == IF last.op = "all" THEN LiveIdx ELSE ChangedIdx
            IN out' = IF S = {} THEN <<>>
                      ELSE << [ev |-> "change", payload |-> Snapshot(S)] >>
       /\ (/\ last.op \in {"all", "changedOnly"}
           /\ last'.op = "write"
           /\ out' # <<>>) =>
            DOMAIN out'[1].payload =
                IF last.op = "all" THEN {KeyAt(i) : i \in LiveIdx}
                ELSE {heap[attrs[last'.obj][last'.prop].acc].key}]_vars

\* C17 witness: all() has just run while a timer is active and exactly one of
\* two live entries with different keys differs from its lastValue, so the
\* next tick's payload depends on the mode
C17_Witness ==
    /\ last.op = "all"
    /\ mode = "all"
    /\ timers # {}
    /\ LiveIdx = {1, 2}
    /\ KeyAt(1) # KeyAt(2)
    /\ Cardinality(ChangedIdx) = 1

\* C18 as stated: an assignment to the property of an entry registered after
\* the most recent realTime() emits no notification and leaves the entry's
\* lastValue as it was.
C18_LateWriteSilent ==
    [][last'.op = "write" =>
          \A id \in late :
              (heap[id].obj = last'.obj /\ heap[id].prop = last'.prop) =>
                  /\ out' = <<>>
                  /\ heap'[id].lastValue = heap[id].lastValue]_vars

\* C18 amended: no setter is bound to an entry registered after the most
\* recent realTime(); an assignment to the property of such an entry leaves
\* the entry's lastValue as it was, and emits no notification when the
\* property is a plain data property, that is, when realTime() had not
\* redefined it for another entry.
C18_LateEntryNotRewritten ==
    [][/\ \A id \in late' : \A o \in Objs : \A p \in DOMAIN attrs'[o] :
              attrs'[o][p].acc # id
       /\ last'.op = "write" =>
              \A id \in late :
                  (heap[id].obj = last'.obj /\ heap[id].prop = last'.prop) =>
                      /\ heap'[id].lastValue = heap[id].lastValue
                      /\ attrs[last'.obj][last'.prop].acc = 0 => out' = <<>>]_vars

\* C18 witness: in real-time mode, with the property of another object
\* redefined, a new value has just been assigned to the plain property of an
\* entry registered after realTime(): nothing was emitted and the entry's
\* lastValue is not the value assigned
C18_Witness ==
    /\ last.op = "write"
    /\ type = "real-time"
    /\ out = <<>>
    /\ \E id \in late :
          /\ heap[id].obj = last.obj
          /\ heap[id].prop = last.prop
          /\ attrs[last.obj][last.prop].acc = 0
          /\ attrs[last.obj][last.prop].val = last.val
          /\ heap[id].lastValue # last.val
    /\ \E o \in Objs : o # last.obj /\ attrs[o]["a"].acc # 0

\* C19: watch(obj, items) registers the items in order up to, and not
\* including, the first item whose property obj does not have; it throws
\* exactly when there is such an item; the entries registered before stay,
\* each with its object, property, resolved key and the value read; no item
\* at or after the failing one is registered, and no other entry changes.
C19_BatchWatchFailFast ==
    [][last'.op = "watchBatch" =>
          LET items == last'.items
              o == last'.obj
              absent == {i \in DOMAIN items : items[i].prop \notin DOMAIN attrs[o]}
              n == IF absent = {} THEN Len(items) + 1
                   ELSE CHOOSE i \in absent : \A j \in absent : i <= j
          IN /\ last'.threw = (absent # {})
             /\ Len(entries') = Len(entries) + n - 1
             /\ SubSeq(entries', 1, Len(entries)) = entries
             /\ Len(heap') = Len(heap) + n - 1
             /\ \A id \in DOMAIN heap : heap'[id] = heap[id]
             /\ \A j \in 1..(n - 1) :
                   /\ entries'[Len(entries) + j] = Len(heap) + j
                   /\ heap'[Len(heap) + j] =
                         [obj |-> o,
                          prop |-> items[j].prop,
                          key |-> IF items[j].key = Undefined THEN items[j].prop
                                  ELSE items[j].key,
                          lastValue |-> attrs[o][items[j].prop].val]]_vars

\* C19 witness: watch(obj, [[a, k], [b]]) has just thrown at its second item;
\* the entry of its first item is registered behind an entry that was there
\* before, and nothing was registered for the second item
C19_Witness ==
    /\ last.op = "watchBatch"
    /\ last.threw
    /\ Len(last.items) = 2
    /\ last.items[1] = [prop |-> "a", key |-> "k"]
    /\ last.items[2].prop = "b"
    /\ Len(entries) = 2
    /\ Len(heap) = 2
    /\ heap[entries[1]].key = "a"
    /\ heap[entries[2]] = [obj |-> last.obj, prop |-> "a", key |-> "k", lastValue |-> 1]

\* C20: no operation other than watch() and clock() throws: no assignment
\* and no tick ends in the error of buildFullAllPayload(), also when a
\* subscriber assigns to a watched property or switches the mode from inside a
\* notification.
C20_FullAllNeverThrows ==
    last.threw => last.op \in {"watch", "watchBatch", "clock"}

\* C20 witness: an assignment under the all mode has just published both
\* snapshots while the subscriber of 'change' switched the mode to changed in
\* between, and nothing was thrown
C20_Witness ==
    /\ last.op = "write"
    /\ ~last.threw
    /\ listener.ev = "change"
    /\ listener.act.kind = "changedOnly"
    /\ mode = "changed"
    /\ Len(out) = 2
    /\ out[2].ev = "change:full"
    /\ Cardinality(DOMAIN out[2].payload) = 2

\* C21: a step emits the process warning exactly when it is a realTime()
\* call, the first or a later one; so the warnings emitted so far are as many
\* as the realTime() calls made so far.
C21_WarningPerRealTime ==
    [][last'.warned <=> last'.op = "realTime"]_vars

\* C21 witness: a realTime() call that was not the first has just warned: a
\* property still carries the setter an earlier call bound to an entry that
\* unwatch() has removed since
C21_Witness ==
    /\ last.op = "realTime"
    /\ last.warned
    /\ \E o \in Objs :
          /\ live[o]
          /\ attrs[o]["a"].acc # 0
          /\ attrs[o]["a"].acc \notin Range(entries)

\* C22: when an assignment that changes the value of a property realTime()
\* redefined has returned, the lastValue of the entry the setter is bound to
\* is the value the property reads as, also when a subscriber assigned the
\* property again from inside one of the notifications.
C22_LastValueAfterWrite ==
    [][(/\ last'.op = "write"
        /\ attrs[last'.obj][last'.prop].acc # 0
        /\ last'.val # attrs[last'.obj][last'.prop].val) =>
          heap'[attrs[last'.obj][last'.prop].acc].lastValue =
              attrs'[last'.obj][last'.prop].val]_vars

\* C23: when realTime() has returned, the lastValue of every registered entry
\* of a live object (every entry the call redefined the property of) is the
\* value the property reads as.
C23_LastValueFreshAfterRealTime ==
    [][last'.op = "realTime" =>
          \A i \in LiveIdx :
              heap'[entries[i]].lastValue =
                  attrs'[heap[entries[i]].obj][heap[entries[i]].prop].val]_vars

\* C24: with two entries of the same property of the same object under
\* different keys, both registered before the latest realTime(), an
\* assignment that changes the value leaves both entries' lastValue at the
\* value assigned and, under the changed mode, is notified under both keys.
C24_DuplicateRegistrationBothNotified ==
    [][(/\ last'.op = "write"
        /\ rtCalled
        /\ last'.val # attrs[last'.obj][last'.prop].val) =>
          \A i, j \in LiveIdx :
              (/\ i # j
               /\ entries[i] \notin late
               /\ entries[j] \notin late
               /\ heap[entries[i]].obj = last'.obj
               /\ heap[entries[j]].obj = last'.obj
               /\ heap[entries[i]].prop = last'.prop
               /\ heap[entries[j]].prop = last'.prop
               /\ KeyAt(i) # KeyAt(j)) =>
                  /\ heap'[entries[i]].lastValue = last'.val
                  /\ heap'[entries[j]].lastValue = last'.val
                  /\ mode = "changed" =>
                        \E n \in DOMAIN out' :
                            /\ out'[n].ev = "change"
                            /\ {KeyAt(i), KeyAt(j)} \subseteq DOMAIN out'[n].payload]_vars

====
